---- MODULE Spec2Model ----
(***************************************************************************)
(* numpydoc/discrepancy.py: locating a docstring in source text, rewriting *)
(* one numpydoc parameter section and reporting the change as a diff.      *)
(*                                                                         *)
(* Text is a sequence of one-character strings.  A Python exception is a   *)
(* record [kind |-> "raise", exc, at]; a normal return is                  *)
(* [kind |-> "ok", value].                                                 *)
(***************************************************************************)
EXTENDS Integers, Sequences, FiniteSets, TLC

VARIABLES obj, call, result, locals, members, cursor, diffs

vars == <<obj, call, result, locals, members, cursor, diffs>>

(***************************************************************************)
(* Bounds of the model.                                                    *)
(***************************************************************************)
MaxSrcTokens == 5
MaxOffset == 1
MaxEntries == 2
MaxPos == 2
MaxMembers == 2

(***************************************************************************)
(* Text helpers (str methods used by the module).                          *)
(***************************************************************************)
NL == "\n"
SP == " "
DQ == "\""
SQ == "'"

\* obj.__doc__ is None
NoDoc == <<"None">>

Raise(exc, at) == [kind |-> "raise", exc |-> exc, at |-> at]
Return(v) == [kind |-> "ok", value |-> v]

IsSpace(c) == c \in {SP, NL, "\t"}

Min(S) == CHOOSE x \in S : \A y \in S : x <= y
Max(S) == CHOOSE x \in S : \A y \in S : x >= y

RECURSIVE SortedSeq(_)
SortedSeq(S) ==
    IF S = {} THEN <<>> ELSE <<Min(S)>> \o SortedSeq(S \ {Min(S)})

\* s[i:j] with 0-based half-open bounds, as a Python slice of in-range bounds
Slice(s, i, j) == SubSeq(s, i + 1, j)

RECURSIVE Flatten(_)
Flatten(ss) == IF ss = <<>> THEN <<>> ELSE Head(ss) \o Flatten(Tail(ss))

\* str.count('\n')
RECURSIVE count(_, _)
count(s, c) ==
    IF s = <<>> THEN 0
    ELSE (IF Head(s) = c THEN 1 ELSE 0) + count(Tail(s), c)

\* str.lstrip(), str.rstrip(), str.strip()
RECURSIVE lstrip(_)
lstrip(s) == IF s # <<>> /\ IsSpace(Head(s)) THEN lstrip(Tail(s)) ELSE s

RECURSIVE rstrip(_)
rstrip(s) ==
    IF s # <<>> /\ IsSpace(s[Len(s)]) THEN rstrip(SubSeq(s, 1, Len(s) - 1))
    ELSE s

strip(s) == rstrip(lstrip(s))

(***************************************************************************)
(* The regular expression of get_docstring_source, matched by re.search    *)
(* with MULTILINE | DOTALL | VERBOSE.  Positions are boundaries 0..Len(s). *)
(***************************************************************************)
\* ^ under re.MULTILINE
LineStart(s, i) == i = 0 \/ s[i] = NL

\* $ under re.MULTILINE
LineEnd(s, i) == i = Len(s) \/ s[i + 1] = NL

\* . under re.DOTALL
Dot(c) == TRUE

\* .* can run from boundary i to boundary j
AllDot(s, i, j) == \A k \in (i + 1)..j : Dot(s[k])

\* the end of the longest run of \s starting at boundary i
RECURSIVE WsRunEnd(_, _)
WsRunEnd(s, i) ==
    IF i < Len(s) /\ IsSpace(s[i + 1]) THEN WsRunEnd(s, i + 1) ELSE i

\* ("""|''') at boundary i: the quote character, or "" when neither is there
QuoteAt(s, i) ==
    IF i + 3 > Len(s) THEN ""
    ELSE IF s[i + 1] = DQ /\ s[i + 2] = DQ /\ s[i + 3] = DQ THEN DQ
    ELSE IF s[i + 1] = SQ /\ s[i + 2] = SQ /\ s[i + 3] = SQ THEN SQ
    ELSE ""

\* an optional character of the class cs at boundary i: the boundary after it
OptChar(s, i, cs) == IF i < Len(s) /\ s[i + 1] \in cs THEN i + 1 ELSE i

\* [uU]?[rR]? from boundary ws
StrPrefixEnd(s, ws) == OptChar(s, OptChar(s, ws, {"u", "U"}), {"r", "R"})

\* (?P<quote>"""|''')\s* at boundary r, then \S, after ^\s+ at boundary b
OpenQuote(s, b, r) ==
    [ok    |-> /\ LineStart(s, b)
               /\ WsRunEnd(s, b) > b
               /\ QuoteAt(s, r) # ""
               /\ WsRunEnd(s, r + 3) < Len(s),
     quote |-> QuoteAt(s, r),
     c     |-> WsRunEnd(s, r + 3)]

\* ^\s+[uU]?[rR]?(?P<quote>"""|''')\s* at boundary b, then \S:
\* every piece is followed by a character its own class excludes, so the
\* greedy choice is the only one that can succeed.
Open(s, b) == OpenQuote(s, b, StrPrefixEnd(s, WsRunEnd(s, b)))

\* (?P=quote) at boundary e: the boundary after the closing quote, or -1
CloseQuote(s, e, q) == IF QuoteAt(s, e) = q THEN e + 3 ELSE -1

\* \s*(?P=quote) at boundary d
Close(s, d, q) == CloseQuote(s, WsRunEnd(s, d), q)

\* .*$ from boundary e, greedy: the last line end that . reaches from e,
\* tried from the end of the text backwards; -1 when there is none
RECURSIVE Tail_f(_, _, _)
Tail_f(s, e, f) ==
    IF f < e THEN -1
    ELSE IF AllDot(s, e, f) /\ LineEnd(s, f) THEN f
    ELSE Tail_f(s, e, f - 1)

\* .*$ matches after a closing quote that ends at boundary e
Suffix(s, e) == e # -1 /\ Tail_f(s, e, Len(s)) # -1

\* (?P<content>\S.*?) from boundary c, lazy: the first end d from which the
\* suffix \s*(?P=quote).*$ matches; -1 when there is none
RECURSIVE Content_d(_, _, _, _)
Content_d(s, c, q, d) ==
    IF d > Len(s) \/ (d > c + 1 /\ ~Dot(s[d])) THEN -1
    ELSE IF Suffix(s, Close(s, d, q)) THEN d
    ELSE Content_d(s, c, q, d + 1)

\* the content end for the opening o, -1 when the opening does not match
Content(s, o) == IF o.ok THEN Content_d(s, o.c, o.quote, o.c + 1) ELSE -1

\* .*?^ from boundary a, lazy: the first line start b from which the rest of
\* the pattern matches, with the content end d found there; <<-1, -1>> when
\* there is none
RECURSIVE Prefix_b(_, _, _)
RECURSIVE Prefix_bd(_, _, _, _)
Prefix_b(s, a, b) ==
    IF b > Len(s) \/ (b > a /\ ~Dot(s[b])) THEN <<-1, -1>>
    ELSE Prefix_bd(s, a, b, Content(s, Open(s, b)))

Prefix_bd(s, a, b, d) ==
    IF d # -1 THEN <<b, d>> ELSE Prefix_b(s, a, b + 1)

\* re.search tries every start from the left: <<a, b, d>> of the first match
RECURSIVE Search_a(_, _)
RECURSIVE Search_abd(_, _, _)
Search_a(s, a) ==
    IF a > Len(s) THEN <<-1, -1, -1>>
    ELSE Search_abd(s, a, IF LineStart(s, a) THEN Prefix_b(s, a, a)
                          ELSE <<-1, -1>>)

Search_abd(s, a, bd) ==
    IF bd[1] # -1 THEN <<a>> \o bd ELSE Search_a(s, a + 1)

\* The result is match.groupdict(), or NoMatch for None.
NoMatch == [nomatch |-> TRUE]

groupdict(s, a, o, d) ==
    [prefix  |-> Slice(s, a, o.c),
     quote   |-> <<o.quote, o.quote, o.quote>>,
     content |-> Slice(s, o.c, d),
     suffix  |-> Slice(s, d, Tail_f(s, Close(s, d, o.quote), Len(s)))]

Match(s, m) ==
    IF m[1] = -1 THEN NoMatch ELSE groupdict(s, m[1], Open(s, m[2]), m[3])

re_search(s) == Match(s, Search_a(s, 0))

(***************************************************************************)
(* get_docstring_source(obj, check_match)                                  *)
(***************************************************************************)
\* _finddoc_obj followed by resolved_obj.__doc__: the docstring of the owner
\* that documents obj, NoDoc when there is none.
finddoc(o) == o.doc

\* checked_match without the comparison of the docstring with the content:
\* C7 tells the two apart
checked_match_any(orig_doc, match, check_match) ==
    IF orig_doc = NoDoc THEN Raise("ValueError", "no __doc__")
    ELSE IF match = NoMatch THEN Raise("NotImplementedError", "no match")
    ELSE Return(match)

\* the checks of get_docstring_source on the docstring and on the match
checked_match(orig_doc, match, check_match) ==
    IF orig_doc = NoDoc THEN Raise("ValueError", "no __doc__")
    ELSE IF match = NoMatch THEN Raise("NotImplementedError", "no match")
    ELSE IF check_match /\ strip(orig_doc) # match.content
         THEN Raise("NotImplementedError", "mismatch")
    ELSE Return(match)

get_docstring_source(o, check_match) ==
    checked_match(finddoc(o), re_search(o.src), check_match)

\* iterating match.groupdict() yields its keys, the named groups in order
dict_keys(match) == <<"prefix", "quote", "content", "suffix">>

\* resolved_obj, match = <iterable>: anything but two items raises ValueError
Unpack2(items) ==
    IF Len(items) = 2 THEN Return(items) ELSE Raise("ValueError", "unpack")

\* the result of a call, or what follows it when it returned
Then(got, next) == IF got.kind = "raise" THEN got ELSE next

(***************************************************************************)
(* get_docstring_line_range(obj, check_match)                              *)
(***************************************************************************)
\* start and stop from the match, once the unpacking has bound it
line_range(o, match) ==
    Return(<<o.path,
             o.file_offset + count(match.prefix, NL),
             o.file_offset + count(match.prefix, NL)
                 + count(match.content, NL)>>)

unpacked_line_range(o, un) == Then(un, line_range(o, un.value[2]))

source_line_range(o, got) ==
    Then(got, unpacked_line_range(o, Unpack2(dict_keys(got.value))))

get_docstring_line_range(o, check_match) ==
    source_line_range(o, get_docstring_source(o, check_match))

(***************************************************************************)
(* Lines of text: str.split('\n'), '\n'.join, str.expandtabs.              *)
(***************************************************************************)
split(s) ==
    LET nls   == {i \in 1..Len(s) : s[i] = NL}
        cuts  == SortedSeq(nls)
        from(k) == IF k = 1 THEN 1 ELSE cuts[k - 1] + 1
        to(k)   == IF k > Len(cuts) THEN Len(s) ELSE cuts[k] - 1
    IN  [k \in 1..(Len(cuts) + 1) |-> SubSeq(s, from(k), to(k))]

RECURSIVE join(_)
join(ls) ==
    IF ls = <<>> THEN <<>>
    ELSE IF Len(ls) = 1 THEN ls[1]
    ELSE ls[1] \o <<NL>> \o join(Tail(ls))

TabSize == 8

RECURSIVE expandtabs_from(_, _)
expandtabs_from(s, col) ==
    IF s = <<>> THEN <<>>
    ELSE IF Head(s) = "\t"
         THEN LET n == TabSize - (col % TabSize)
              IN  [i \in 1..n |-> SP] \o expandtabs_from(Tail(s), col + n)
    ELSE IF Head(s) = NL THEN <<NL>> \o expandtabs_from(Tail(s), 0)
    ELSE <<Head(s)>> \o expandtabs_from(Tail(s), col + 1)

expandtabs(s) == expandtabs_from(s, 0)

\* len(line) - len(line.lstrip())
LeadingWs(line) == Len(line) - Len(lstrip(line))

\* the minimum indentation of the non-blank lines after the first,
\* sys.maxsize (here -1) when there is none
Margin(lines) ==
    LET inds == {LeadingWs(lines[i]) : i \in {j \in 2..Len(lines) : lstrip(lines[j]) # <<>>}}
    IN  IF inds = {} THEN -1 ELSE Min(inds)

_get_doc_indent(doc) ==
    LET margin == Margin(split(expandtabs(doc)))
    IN  IF margin = -1 THEN 0 ELSE margin

RECURSIVE DropTrailingEmpty(_)
DropTrailingEmpty(ls) ==
    IF ls # <<>> /\ ls[Len(ls)] = <<>>
    THEN DropTrailingEmpty(SubSeq(ls, 1, Len(ls) - 1)) ELSE ls

RECURSIVE DropLeadingEmpty(_)
DropLeadingEmpty(ls) ==
    IF ls # <<>> /\ Head(ls) = <<>> THEN DropLeadingEmpty(Tail(ls)) ELSE ls

\* inspect.cleandoc, which inspect.getdoc applies to the docstring
cleandoc(doc) ==
    LET lines  == split(expandtabs(doc))
        margin == Margin(lines)
        cut    == [i \in 1..Len(lines) |->
                      IF i = 1 THEN lstrip(lines[1])
                      ELSE IF margin = -1 THEN lines[i]
                      ELSE SubSeq(lines[i], margin + 1, Len(lines[i]))]
    IN  join(DropLeadingEmpty(DropTrailingEmpty(cut)))

\* inspect.getdoc(obj): None when the object has no docstring
getdoc(o) == IF o.doc = NoDoc THEN NoDoc ELSE cleandoc(o.doc)

(***************************************************************************)
(* NumpyDocString (numpydoc/docscrape.py): the section parser.  A section  *)
(* is a header line over a line of dashes; its content runs to the next    *)
(* header, blank lines at both ends left out.  In a parameter list an      *)
(* unindented line starts an entry, "name" or "name : type", and the       *)
(* lines up to the next entry are the entry's.  Line numbers are 0-based   *)
(* indices into the docstring's lines.                                     *)
(***************************************************************************)
Line(lines, i) == lines[i + 1]

IsUnderline(l) == l # <<>> /\ \A k \in 1..Len(l) : l[k] = "-"

IsHeader(lines, i) ==
    /\ i + 1 < Len(lines)
    /\ strip(Line(lines, i)) # <<>>
    /\ ~IsUnderline(strip(Line(lines, i)))
    /\ IsUnderline(strip(Line(lines, i + 1)))

\* "name : type" -> name
EntryName(l) ==
    LET at == {i \in 1..(Len(l) - 2) : l[i] = SP /\ l[i + 1] = ":" /\ l[i + 2] = SP}
    IN  IF at = {} THEN strip(l) ELSE strip(SubSeq(l, 1, Min(at) - 1))

ParseSection(lines, headers, h) ==
    LET later   == {x \in headers : x > h}
        next    == IF later = {} THEN Len(lines) ELSE Min(later)
        filled  == {i \in (h + 2)..(next - 1) : strip(Line(lines, i)) # <<>>}
        first   == IF filled = {} THEN h + 2 ELSE Min(filled)
        stop    == IF filled = {} THEN h + 2 ELSE Max(filled) + 1
        starts  == SortedSeq({i \in filled : ~IsSpace(Line(lines, i)[1])})
        entry(k) ==
            LET from == starts[k]
                to   == IF k < Len(starts) THEN starts[k + 1] ELSE stop
            IN  [name |-> EntryName(Line(lines, from)),
                 start |-> from, length |-> to - from]
    IN  [name    |-> strip(Line(lines, h)),
         start   |-> first,
         length  |-> stop - first,
         entries |-> [k \in 1..Len(starts) |-> entry(k)]]

NumpyDocString(docstring) ==
    LET lines   == split(docstring)
        headers == {i \in 0..(Len(lines) - 1) : IsHeader(lines, i)}
        hs      == SortedSeq(headers)
    IN  [k \in 1..Len(hs) |-> ParseSection(lines, headers, hs[k])]

\* the first section of that name, 0 when the docstring has none
SectionIndex(parsed, section) ==
    LET ks == {k \in 1..Len(parsed) : parsed[k].name = section}
    IN  IF ks = {} THEN 0 ELSE Min(ks)

\* parsed_docstring._line_spans[section]
line_spans(parsed, section) ==
    LET k == SectionIndex(parsed, section)
    IN  IF k = 0 THEN Raise("KeyError", "section")
        ELSE Return(<<parsed[k].start, parsed[k].length>>)

\* parsed_docstring._line_spans[section, idx]
line_spans_entry(parsed, section, idx) ==
    LET k == SectionIndex(parsed, section)
    IN  IF k = 0 \/ idx + 1 > Len(parsed[k].entries) THEN Raise("KeyError", "entry")
        ELSE Return(<<parsed[k].entries[idx + 1].start, parsed[k].entries[idx + 1].length>>)

\* parsed_docstring[section]: the names of the entries, in order
section_names(parsed, section) ==
    LET k == SectionIndex(parsed, section)
    IN  IF k = 0 THEN <<>>
        ELSE [i \in 1..Len(parsed[k].entries) |-> parsed[k].entries[i].name]

(***************************************************************************)
(* build_docstring_diff(obj, updated_docstring, path)                      *)
(***************************************************************************)
NoText == <<"None">>

Repeat(c, n) == [i \in 1..n |-> c]

\* '\n'.join(difflib.unified_diff(a, b, ...)): empty when the line lists are
\* equal, otherwise a text that holds both sides
unified_diff(a, b) ==
    IF a = b THEN <<>> ELSE <<"-">> \o join(a) \o <<NL, "+">> \o join(b)

\* diff_from and diff_to compared, line by line
diff_texts(diff_from, diff_to) ==
    [ret     |-> Return(unified_diff(split(diff_from), split(diff_to))),
     diff_to |-> diff_to]

\* updated_docstring with every line after the first behind indent
indented(updated_lines, indent) ==
    join([i \in 1..Len(updated_lines) |->
            IF i = 1 THEN updated_lines[1] ELSE indent \o updated_lines[i]])

\* the body of build_docstring_diff, once the unpacking has bound
\* resolved_obj and match
diff_of_match(o, updated_docstring, resolved_obj, match) ==
    diff_texts(Repeat(NL, o.file_offset - 1) \o o.src,
               Repeat(NL, o.file_offset - 1) \o match.prefix
                   \o indented(split(updated_docstring),
                               Repeat(SP, _get_doc_indent(resolved_obj.doc)))
                   \o match.suffix)

diff_of_unpacked(o, updated_docstring, un) ==
    IF un.kind = "raise" THEN [ret |-> un, diff_to |-> NoText]
    ELSE diff_of_match(o, updated_docstring, un.value[1], un.value[2])

diff_of_source(o, updated_docstring, got) ==
    IF got.kind = "raise" THEN [ret |-> got, diff_to |-> NoText]
    ELSE diff_of_unpacked(o, updated_docstring, Unpack2(dict_keys(got.value)))

\* the diff returned or the exception raised, and the text diff_to that was
\* built, NoText when the call did not get that far
build_docstring_diff(o, updated_docstring) ==
    diff_of_source(o, updated_docstring, get_docstring_source(o, TRUE))

(***************************************************************************)
(* get_param_diff(obj, positional, keyword, section, path)                 *)
(***************************************************************************)
Range(f) == {f[i] : i \in DOMAIN f}

\* code points, for the order of sorted()
Chars ==
    <<"\t", NL, SP, DQ, SQ, "-", ":", "P", "R", "S", "\\",
      "a", "b", "c", "d", "e", "f", "k", "l", "p", "r", "s", "t", "v">>

ord(c) == CHOOSE i \in 1..Len(Chars) : Chars[i] = c

\* s < t for str
RECURSIVE StrLess(_, _)
StrLess(s, t) ==
    IF t = <<>> THEN FALSE
    ELSE IF s = <<>> THEN TRUE
    ELSE IF Head(s) = Head(t) THEN StrLess(Tail(s), Tail(t))
    ELSE ord(Head(s)) < ord(Head(t))

RECURSIVE sorted(_)
sorted(S) ==
    IF S = {} THEN <<>>
    ELSE LET m == CHOOSE x \in S : \A y \in S \ {x} : StrLess(x, y)
         IN  <<m>> \o sorted(S \ {m})

\* get_lines(idx): the lines of the span <<start, length>>
get_lines(lines, span) == Slice(lines, span[1], span[1] + span[2])

\* keyword.intersection(positional)
intersection(keyword, positional) == keyword \cap Range(positional)

\* name_to_idx: a dict built from (name, i) pairs keeps the last i of a name
name_to_idx(names, name) == Max({i \in 1..Len(names) : names[i] = name}) - 1

\* the loop over positional emitting only the first line of a documented
\* entry: C3 tells the two apart
insert_positionals_first_line(names, blocks, positional) ==
    Flatten([i \in 1..Len(positional) |->
                IF positional[i] \in Range(names)
                THEN <<blocks[name_to_idx(names, positional[i]) + 1][1]>>
                ELSE <<positional[i]>>])

\* the loop over positional: the entry of a documented name, else the name
insert_positionals(names, blocks, positional) ==
    Flatten([i \in 1..Len(positional) |->
                IF positional[i] \in Range(names)
                THEN blocks[name_to_idx(names, positional[i]) + 1]
                ELSE <<positional[i]>>])

\* the keyword loop without keyword.remove(name): C4 tells the two apart
RECURSIVE matched_keywords_no_remove(_, _, _, _, _, _)
matched_keywords_no_remove(names, blocks, i, positional, keyword, out) ==
    IF i > Len(names) THEN [out |-> out, keyword |-> keyword]
    ELSE IF names[i] \in positional \/ names[i] \notin keyword
         THEN matched_keywords_no_remove(names, blocks, i + 1, positional,
                                         keyword, out)
    ELSE matched_keywords_no_remove(names, blocks, i + 1, positional,
                                    keyword, out \o blocks[i])

\* the loop over parsed_docstring[section] that emits the matched keywords
RECURSIVE matched_keywords(_, _, _, _, _, _)
matched_keywords(names, blocks, i, positional, keyword, out) ==
    IF i > Len(names) THEN [out |-> out, keyword |-> keyword]
    ELSE IF names[i] \in positional
         THEN matched_keywords(names, blocks, i + 1, positional, keyword, out)
    ELSE IF names[i] \notin keyword
         THEN matched_keywords(names, blocks, i + 1, positional, keyword, out)
    ELSE matched_keywords(names, blocks, i + 1, positional,
                          keyword \ {names[i]}, out \o blocks[i])

NoOut == <<NoText>>

\* a call that raised exc after the reads it made of the object
Failed(exc, reads) == [ret |-> exc, reads |-> reads, out |-> NoOut, diff_to |-> NoText]

\* return build_docstring_diff(obj, '\n'.join(out), path=path)
diff_of_out(out, built) ==
    [ret |-> built.ret, reads |-> {"getdoc", "parse", "source"},
     out |-> out, diff_to |-> built.diff_to]

return_diff(o, out) == diff_of_out(out, build_docstring_diff(o, join(out)))

\* out after the loop over the documented names, then the keywords that are
\* left, sorted, then the lines after the parameter list
finish_out(kw, tail) == kw.out \o sorted(kw.keyword) \o tail

\* the lines up to the first entry (param_list_start), the positional loop,
\* the keyword loop and the lines from param_list_stop on
updated_lines(lines, names, blocks, positional, keyword, start, stop) ==
    finish_out(
        matched_keywords(names, blocks, 1, Range(positional), keyword,
            Slice(lines, 0, start)
                \o insert_positionals(names, blocks, positional)),
        Slice(lines, stop, Len(lines)))

\* try: param_list_start, _ = _line_spans[section, 0]
\* except KeyError: param_list_start = param_list_stop
first_start(first, param_list_stop) ==
    IF first.kind = "raise" THEN param_list_stop ELSE first.value[1]

\* get_lines((section, i)) for every documented name
entry_blocks(lines, parsed_docstring, section) ==
    [i \in 1..Len(section_names(parsed_docstring, section)) |->
        get_lines(lines, line_spans_entry(parsed_docstring, section, i - 1).value)]

\* section_start, param_list_length = parsed_docstring._line_spans[section]
\* and what follows it
rewrite_section(o, positional, keyword, section, lines, parsed_docstring, whole) ==
    IF whole.kind = "raise" THEN Failed(whole, {"getdoc", "parse"})
    ELSE return_diff(o,
             updated_lines(lines,
                 section_names(parsed_docstring, section),
                 entry_blocks(lines, parsed_docstring, section),
                 positional, keyword,
                 first_start(line_spans_entry(parsed_docstring, section, 0),
                             whole.value[1] + whole.value[2]),
                 whole.value[1] + whole.value[2]))

rewrite_parsed(o, positional, keyword, section, lines, parsed_docstring) ==
    rewrite_section(o, positional, keyword, section, lines, parsed_docstring,
                    line_spans(parsed_docstring, section))

\* NumpyDocString(None) fails on None.split
rewrite_doc(o, positional, keyword, section, orig_doc) ==
    IF orig_doc = NoDoc
    THEN Failed(Raise("TypeError", "NumpyDocString(None)"), {"getdoc"})
    ELSE rewrite_parsed(o, positional, keyword, section,
                        split(orig_doc), NumpyDocString(orig_doc))

\* get_param_diff with the overlap check after the docstring is read: C2
\* tells the two apart
get_param_diff_late_check(o, positional, keyword_arg, section) ==
    IF getdoc(o) = NoDoc
    THEN Failed(Raise("TypeError", "NumpyDocString(None)"), {"getdoc"})
    ELSE IF intersection(Range(keyword_arg), positional) # {}
    THEN Failed(Raise("ValueError", "overlap"), {"getdoc"})
    ELSE rewrite_doc(o, positional, Range(keyword_arg), section, getdoc(o))

\* the result with the locals of the call: reads, the reads made of the
\* object; out, the updated lines; diff_to, the text handed to the diff
get_param_diff(o, positional, keyword_arg, section) ==
    IF intersection(Range(keyword_arg), positional) # {}
    THEN Failed(Raise("ValueError", "overlap"), {})
    ELSE rewrite_doc(o, positional, Range(keyword_arg), section, getdoc(o))

(***************************************************************************)
(* diff_parameters(obj, all_positional, remove, path)                      *)
(***************************************************************************)
\* inspect.getargspec(func): names are texts, None is NoText, and defaults
\* is the number of default values, NoDefaults for None
NoDefaults == -1
SelfName == <<"s", "e", "l", "f">>

\* args[:-n] and args[-n:] for n >= 1
AllButLast(args, n) == SubSeq(args, 1, IF Len(args) > n THEN Len(args) - n ELSE 0)
Last(args, n) == SubSeq(args, (IF Len(args) > n THEN Len(args) - n ELSE 0) + 1, Len(args))

Without(s, remove) == SelectSeq(s, LAMBDA name : name \notin remove)

\* signature_request that keeps a leading self: C9 tells the two apart
signature_request_keeps_self(argspec, all_positional, remove) ==
    LET args       == argspec.args
        defaults   == argspec.defaults
        split_at   == all_positional \/ defaults = NoDefaults
        positional == IF split_at THEN args ELSE AllButLast(args, defaults)
        keyword    == IF split_at THEN {} ELSE Range(Last(args, defaults))
        positional2 ==
            IF argspec.varargs # NoText THEN positional \o <<argspec.varargs>>
            ELSE positional
        keyword2   ==
            IF argspec.keywords # NoText THEN keyword \cup {argspec.keywords}
            ELSE keyword
    IN  [positional |-> Without(positional2, remove),
         keyword    |-> keyword2 \ remove]

\* the positional and keyword names the signature asks for
signature_request(argspec, all_positional, remove) ==
    LET args0      == argspec.args
        args       == IF Len(args0) > 0 /\ args0[1] = SelfName THEN Tail(args0) ELSE args0
        defaults   == argspec.defaults
        split_at   == all_positional \/ defaults = NoDefaults
        positional == IF split_at THEN args ELSE AllButLast(args, defaults)
        keyword    == IF split_at THEN {} ELSE Range(Last(args, defaults))
        positional2 ==
            IF argspec.varargs # NoText THEN positional \o <<argspec.varargs>>
            ELSE positional
        keyword2   ==
            IF argspec.keywords # NoText THEN keyword \cup {argspec.keywords}
            ELSE keyword
    IN  [positional |-> Without(positional2, remove),
         keyword    |-> keyword2 \ remove]

\* get_param_diff(obj, positional, sorted(keyword), path=path), with the
\* positional list and the keyword set it was asked for
diff_request(o, req) ==
    get_param_diff(o, req.positional, sorted(req.keyword), <<"P">>)
    @@ [positional |-> req.positional, keyword |-> req.keyword]

diff_parameters(o, all_positional, remove) ==
    diff_request(o, signature_request(o.argspec, all_positional, remove))

(***************************************************************************)
(* Objects whose docstring is looked up: every source text of up to        *)
(* MaxSrcTokens tokens, with the docstring Python would attach (the text   *)
(* of a triple-quoted literal of the source), a docstring the source does  *)
(* not contain, or none.                                                   *)
(***************************************************************************)
Tokens ==
    {<<"r">>, <<SP>>, <<NL>>, <<DQ, DQ, DQ>>, <<SQ, SQ, SQ>>}

RECURSIVE TokenSeqs(_)
TokenSeqs(n) ==
    IF n = 0 THEN {<<>>}
    ELSE LET shorter == TokenSeqs(n - 1)
         IN  shorter \cup {t \o s : t \in Tokens, s \in shorter}

Sources == TokenSeqs(MaxSrcTokens)

Literals(s) ==
    LET quotes == {i \in 0..Len(s) : QuoteAt(s, i) # ""}
    IN  {Slice(s, p[1] + 3, p[2]) : p \in
            {p \in quotes \X quotes :
                p[1] + 3 <= p[2] /\ QuoteAt(s, p[2]) = QuoteAt(s, p[1])}}

OtherDoc == <<"r", "r", "r", "r">>

DocsOf(s) == {NoDoc, OtherDoc} \cup Literals(s)

NoCall == [op |-> "none"]
NoResult == [kind |-> "none"]
NoLocals == [reads |-> {}]

InitLocate ==
    /\ \E s \in Sources, n \in 1..MaxOffset :
          \E d \in DocsOf(s) :
              obj = [src |-> s, doc |-> d, file_offset |-> n, path |-> "f.py"]
    /\ call = NoCall
    /\ result = NoResult
    /\ locals = NoLocals
    /\ members = <<>>
    /\ cursor = 0
    /\ diffs = <<>>

CallGetDocstringSource(check_match) ==
    /\ call = NoCall
    /\ call' = [op |-> "get_docstring_source", check_match |-> check_match]
    /\ result' = get_docstring_source(obj, check_match)
    /\ UNCHANGED <<obj, locals, members, cursor, diffs>>

CallGetDocstringLineRange(check_match) ==
    /\ call = NoCall
    /\ call' = [op |-> "get_docstring_line_range", check_match |-> check_match]
    /\ result' = get_docstring_line_range(obj, check_match)
    /\ UNCHANGED <<obj, locals, members, cursor, diffs>>

NextLocate ==
    \E check_match \in BOOLEAN :
        \/ CallGetDocstringSource(check_match)
        \/ CallGetDocstringLineRange(check_match)

SpecLocate == InitLocate /\ [][NextLocate]_vars

(***************************************************************************)
(* Documented objects: a function whose docstring has a summary line, a    *)
(* blank line, then possibly a "P" (Parameters) section of up to           *)
(* MaxEntries entries with distinct names and a "R" (Returns) section.     *)
(* The source holds the docstring indented by Indent after the first line. *)
(***************************************************************************)
Names == {<<"a">>, <<"a", "b">>, <<"b">>}
Shapes == {"bare", "full"}
Layouts == {"none", "P", "PR"}
Sections == {<<"P">>, <<"R">>}
Indent == <<SP>>

EntryLines(e) ==
    CASE e.shape = "bare" -> <<e.name>>
      [] e.shape = "full" -> <<e.name \o <<SP, ":", SP, "t">>, <<SP, "d">>, <<>>>>

RECURSIVE EntryLists(_)
EntryLists(n) ==
    IF n = 0 THEN {<<>>}
    ELSE LET shorter == EntryLists(n - 1)
         IN  shorter \cup
             {Append(es, [name |-> nm, shape |-> sh]) :
                 es \in {x \in shorter : Len(x) = n - 1}, nm \in Names, sh \in Shapes}

DistinctNames(es) == \A i, j \in 1..Len(es) : es[i].name = es[j].name => i = j

DocLines(layout, entries) ==
    <<<<"S">>, <<>>>>
    \o (IF layout = "none" THEN <<>>
        ELSE <<<<"P">>, <<"-">>>> \o Flatten([i \in 1..Len(entries) |-> EntryLines(entries[i])]))
    \o (IF layout = "PR" THEN <<<<>>, <<"R">>, <<"-">>, <<"a">>>> ELSE <<>>)

RawDoc(lines) ==
    join([i \in 1..Len(lines) |->
            IF i = 1 \/ lines[i] = <<>> THEN lines[i] ELSE Indent \o lines[i]])
    \o <<NL>> \o Indent

SourceOf(doc) ==
    <<"f", NL>> \o Indent \o <<DQ, DQ, DQ>> \o doc \o <<DQ, DQ, DQ, NL>> \o Indent \o <<"p">>

NoArgSpec == [args |-> <<>>, varargs |-> NoText, keywords |-> NoText, defaults |-> NoDefaults]

Documented(layout, entries, n) ==
    [src |-> SourceOf(RawDoc(DocLines(layout, entries))),
     doc |-> RawDoc(DocLines(layout, entries)),
     file_offset |-> n, path |-> "f.py",
     layout |-> layout, entries |-> entries, argspec |-> NoArgSpec]

\* a function without a docstring, and one whose docstring is written with
\* a backslash escape, so that __doc__ is not the text of the literal
Undocumented(n) ==
    [src |-> <<"f", NL>> \o Indent \o <<"p">>, doc |-> NoDoc,
     file_offset |-> n, path |-> "f.py",
     layout |-> "none", entries |-> <<>>, argspec |-> NoArgSpec]

Escaped(n) ==
    [src |-> SourceOf(<<"S", "\\", "t">>), doc |-> <<"S", "\t">>,
     file_offset |-> n, path |-> "f.py",
     layout |-> "none", entries |-> <<>>, argspec |-> NoArgSpec]

RECURSIVE SeqsUpTo(_, _)
SeqsUpTo(S, n) ==
    IF n = 0 THEN {<<>>}
    ELSE LET shorter == SeqsUpTo(S, n - 1)
         IN  shorter \cup {Append(s, x) : s \in shorter, x \in S}

Distinct(s) == \A i, j \in 1..Len(s) : s[i] = s[j] => i = j

Reverse(s) == [i \in 1..Len(s) |-> s[Len(s) + 1 - i]]

\* keyword is any iterable of names: every set of names, in two orders
KeywordArgs == UNION {{sorted(K), Reverse(sorted(K))} : K \in SUBSET Names}

Init ==
    /\ \/ \E layout \in Layouts, es \in EntryLists(MaxEntries) :
            /\ DistinctNames(es)
            /\ layout = "none" => es = <<>>
            /\ obj = Documented(layout, es, MaxOffset)
       \/ obj = Undocumented(MaxOffset)
       \/ obj = Escaped(MaxOffset)
    /\ call = NoCall
    /\ result = NoResult
    /\ locals = NoLocals
    /\ members = <<>>
    /\ cursor = 0
    /\ diffs = <<>>

CallGetParamDiff(positional, keyword, section) ==
    /\ call = NoCall
    /\ call' = [op |-> "get_param_diff", positional |-> positional,
                keyword |-> keyword, section |-> section]
    /\ locals' = get_param_diff(obj, positional, keyword, section)
    /\ result' = locals'.ret
    /\ UNCHANGED <<obj, members, cursor, diffs>>

Next ==
    \E positional \in SeqsUpTo(Names, MaxPos), keyword \in KeywordArgs,
       section \in Sections :
        CallGetParamDiff(positional, keyword, section)

Spec == Init /\ [][Next]_vars

(***************************************************************************)
(* diff_parameters on functions of every signature.                        *)
(***************************************************************************)
ArgNames == {SelfName, <<"a">>, <<"b">>}
VarArgsName == <<"v">>
VarKwName == <<"k">>
RemoveNames == {<<"a">>, VarArgsName, VarKwName}

\* a signature names each parameter once
ArgSpecs ==
    UNION {{[args |-> args, varargs |-> va, keywords |-> kw, defaults |-> d] :
                va \in {NoText, VarArgsName}, kw \in {NoText, VarKwName},
                d \in {NoDefaults} \cup 1..Len(args)} :
           args \in {s \in SeqsUpTo(ArgNames, Cardinality(ArgNames)) : Distinct(s)}}

SigEntries == <<[name |-> <<"b">>, shape |-> "full"], [name |-> <<"a">>, shape |-> "bare"]>>

WithArgSpec(o, argspec) == [o EXCEPT !.argspec = argspec]

InitSig ==
    /\ \E argspec \in ArgSpecs :
          \/ obj = WithArgSpec(Documented("P", SigEntries, MaxOffset), argspec)
          \/ obj = WithArgSpec(Undocumented(MaxOffset), argspec)
    /\ call = NoCall
    /\ result = NoResult
    /\ locals = NoLocals
    /\ members = <<>>
    /\ cursor = 0
    /\ diffs = <<>>

CallDiffParameters(all_positional, remove) ==
    /\ call = NoCall
    /\ call' = [op |-> "diff_parameters", all_positional |-> all_positional,
                remove |-> remove]
    /\ locals' = diff_parameters(obj, all_positional, remove)
    /\ result' = locals'.ret
    /\ UNCHANGED <<obj, members, cursor, diffs>>

NextSig ==
    \E all_positional \in BOOLEAN, remove \in SUBSET RemoveNames :
        CallDiffParameters(all_positional, remove)

SpecSig == InitSig /\ [][NextSig]_vars

(***************************************************************************)
(* diff_member_parameters(module, all_positional, remove, path): the walk  *)
(* over the members of a module, one member a step.  members is what       *)
(* inspect.getmembers enumerates, in its order (sorted by name): every     *)
(* class, after each class its functions, then the module's functions.     *)
(***************************************************************************)
ClassNames == <<<<"A">>, <<"B">>, <<"_", "C">>>>
MethodNames == <<<<"_", "_", "c", "a", "l", "l", "_", "_">>, <<"_", "m">>, <<"m">>>>
FunctionNames == <<<<"_", "f">>, <<"f">>, <<"g">>>>
CallName == <<"_", "_", "c", "a", "l", "l", "_", "_">>
ModuleName == <<"M">>

PlainArgSpec ==
    [args |-> <<<<"a">>, <<"b">>>>, varargs |-> NoText, keywords |-> NoText, defaults |-> 1]

MemberObjects ==
    {WithArgSpec(Documented("P", SigEntries, MaxOffset), PlainArgSpec),
     WithArgSpec(Documented("none", <<>>, MaxOffset), PlainArgSpec),
     WithArgSpec(Undocumented(MaxOffset), PlainArgSpec)}

Member(kind, cname, name, o) == [kind |-> kind, cname |-> cname, name |-> name, obj |-> o]

PosIn(names, name) == CHOOSE i \in 1..Len(names) : names[i] = name

\* the order of inspect.getmembers: classes by name, each followed by its
\* functions by name, then the module's functions by name
Enumerated(ms) ==
    \A i \in 1..Len(ms) :
        /\ ms[i].kind = "method" => i > 1 /\ ms[i - 1].kind # "function"
                                          /\ ms[i - 1].cname = ms[i].cname
        /\ ms[i].kind = "class" /\ i > 1 =>
               /\ ms[i - 1].kind # "function"
               /\ PosIn(ClassNames, ms[i - 1].cname) < PosIn(ClassNames, ms[i].cname)
        /\ ms[i].kind = "method" /\ i > 1 /\ ms[i - 1].kind = "method" =>
               PosIn(MethodNames, ms[i - 1].name) < PosIn(MethodNames, ms[i].name)
        /\ ms[i].kind = "function" /\ i > 1 /\ ms[i - 1].kind = "function" =>
               PosIn(FunctionNames, ms[i - 1].name) < PosIn(FunctionNames, ms[i].name)

MemberItems ==
    {Member("class", c, c, o) : c \in Range(ClassNames), o \in MemberObjects}
    \cup {Member("method", c, m, o) :
              c \in Range(ClassNames), m \in Range(MethodNames), o \in MemberObjects}
    \cup {Member("function", <<>>, f, o) : f \in Range(FunctionNames), o \in MemberObjects}

startswith_(name) == name # <<>> /\ name[1] = "_"

\* whether the walk calls append_diff on the member
Visited(m) ==
    CASE m.kind = "class"    -> ~startswith_(m.cname)
      [] m.kind = "method"   ->
             ~startswith_(m.cname) /\ (m.name = CallName \/ ~startswith_(m.name))
      [] m.kind = "function" -> ~startswith_(m.name)

\* except Exception: the exceptions the handler catches
IsException(exc) ==
    exc \in {"ValueError", "TypeError", "KeyError", "NotImplementedError"}

Header(m) ==
    <<"F", "o", "r", SP>> \o ModuleName \o <<".">> \o m.name \o <<":", NL>>

NoRaise == [kind |-> "none"]

\* append_diff without the try: the exception escapes.  C10 tells the two
\* apart
appended_uncaught(ds, m, diff) ==
    IF diff.kind = "raise" THEN [diffs |-> ds, raised |-> diff]
    ELSE IF diff.value # <<>>
         THEN [diffs |-> ds \o <<Header(m), diff.value>>, raised |-> NoRaise]
         ELSE [diffs |-> ds, raised |-> NoRaise]

\* try: diff = diff_parameters(...) except Exception: return
\* if diff: diffs.append(header); diffs.append(diff)
appended(ds, m, diff) ==
    IF diff.kind = "raise"
    THEN IF IsException(diff.exc) THEN [diffs |-> ds, raised |-> NoRaise]
         ELSE [diffs |-> ds, raised |-> diff]
    ELSE IF diff.value # <<>>
         THEN [diffs |-> ds \o <<Header(m), diff.value>>, raised |-> NoRaise]
         ELSE [diffs |-> ds, raised |-> NoRaise]

\* append_diff(obj): the new diffs, and the exception that escapes, if any
append_diff(ds, m, all_positional, remove) ==
    appended(ds, m, diff_parameters(m.obj, all_positional, remove).ret)

InitBatch ==
    /\ obj = [name |-> ModuleName]
    /\ members \in {ms \in SeqsUpTo(MemberItems, MaxMembers) : Enumerated(ms)}
    /\ \E all_positional \in BOOLEAN :
          call = [op |-> "diff_member_parameters", all_positional |-> all_positional,
                  remove |-> {}]
    /\ result = NoResult
    /\ locals = NoLocals
    /\ cursor = 0
    /\ diffs = <<>>

Running == result = NoResult /\ cursor < Len(members)

\* a member the loops pass over: a private class and its functions, a
\* private function
SkipMember ==
    /\ Running
    /\ ~Visited(members[cursor + 1])
    /\ cursor' = cursor + 1
    /\ UNCHANGED <<obj, call, result, locals, members, diffs>>

AppendDiff ==
    /\ Running
    /\ Visited(members[cursor + 1])
    /\ \E r \in {append_diff(diffs, members[cursor + 1],
                            call.all_positional, call.remove)} :
          IF r.raised # NoRaise
          THEN /\ result' = r.raised
               /\ UNCHANGED <<cursor, diffs>>
          ELSE /\ diffs' = r.diffs
               /\ cursor' = cursor + 1
               /\ UNCHANGED result
    /\ UNCHANGED <<obj, call, locals, members>>

\* return ''.join(diffs)
ReturnReport ==
    /\ result = NoResult
    /\ cursor = Len(members)
    /\ result' = Return(Flatten(diffs))
    /\ UNCHANGED <<obj, call, locals, members, cursor, diffs>>

NextBatch == SkipMember \/ AppendDiff \/ ReturnReport

SpecBatch == InitBatch /\ [][NextBatch]_vars

(***************************************************************************)
(* Properties of the locator, checked under SpecLocate.                    *)
(***************************************************************************)
\* the docstring is found: get_docstring_source returns for this object
Located == get_docstring_source(obj, call.check_match).kind = "ok"

\* the text without the whitespace at its ends, stated on positions
Stripped(s, u) ==
    \E i, j \in 0..Len(s) :
        /\ i <= j
        /\ u = SubSeq(s, i + 1, j)
        /\ \A k \in (1..i) \cup ((j + 1)..Len(s)) : IsSpace(s[k])
        /\ i < j => ~IsSpace(s[i + 1]) /\ ~IsSpace(s[j])
        /\ i = j => i = Len(s)

\* C7: whenever get_docstring_source returns with check_match enabled, the
\* groups partition the source (prefix + content + suffix is the source),
\* content is the docstring without its surrounding whitespace, and content
\* neither begins nor ends with whitespace; a content that differs from the
\* stripped docstring is never returned.
C7_MatchPartition ==
    (call.op = "get_docstring_source" /\ call.check_match /\ result.kind = "ok")
    => /\ result.value.prefix \o result.value.content \o result.value.suffix
              = obj.src
       /\ obj.doc # NoDoc
       /\ Stripped(obj.doc, result.value.content)
       /\ result.value.content # <<>>
       /\ ~IsSpace(Head(result.value.content))
       /\ ~IsSpace(result.value.content[Len(result.value.content)])

\* a checked call returned the content of a docstring that has whitespace
\* around it, after a prefix of more than one line
C7_Witness ==
    /\ call.op = "get_docstring_source"
    /\ call.check_match
    /\ result.kind = "ok"
    /\ obj.doc # result.value.content
    /\ count(result.value.prefix, NL) >= 1

\* C8: for every object whose docstring is located, get_docstring_line_range
\* returns start_line = the object's starting line plus the newlines of
\* prefix and stop_line = start_line plus the newlines of content, so that
\* start_line <= stop_line.
C8_LineRange ==
    (call.op = "get_docstring_line_range" /\ Located)
    => /\ result.kind = "ok"
       /\ result.value[2]
              = obj.file_offset
                    + count(get_docstring_source(obj, call.check_match).value.prefix, NL)
       /\ result.value[3]
              = result.value[2]
                    + count(get_docstring_source(obj, call.check_match).value.content, NL)
       /\ result.value[2] <= result.value[3]

(***************************************************************************)
(* Properties of get_param_diff, checked under Spec.  The docstring as it  *)
(* was written is known from obj.layout and obj.entries, so the lines the  *)
(* call builds are compared with what was written, not with what the call  *)
(* parsed.                                                                 *)
(***************************************************************************)
\* the lines of the docstring as written
Written(o) == DropTrailingEmpty(DocLines(o.layout, o.entries))

\* the docstring has the section
HasSection(o, section) ==
    \/ section = <<"P">> /\ o.layout \in {"P", "PR"}
    \/ section = <<"R">> /\ o.layout = "PR"

\* the entries of the section as written: the name and the lines of each,
\* the blank lines after the last entry not being part of it
WrittenEntries(o, section) ==
    IF section = <<"P">>
    THEN [i \in 1..Len(o.entries) |->
            [name  |-> o.entries[i].name,
             lines |-> IF i = Len(o.entries)
                       THEN DropTrailingEmpty(EntryLines(o.entries[i]))
                       ELSE EntryLines(o.entries[i])]]
    ELSE <<[name |-> <<"a">>, lines |-> <<<<"a">>>>]>>

WrittenNames(o, section) ==
    {WrittenEntries(o, section)[i].name : i \in DOMAIN WrittenEntries(o, section)}

\* the lines of the entry of that name
WrittenBlock(o, section, name) ==
    WrittenEntries(o, section)[
        CHOOSE i \in DOMAIN WrittenEntries(o, section) :
            WrittenEntries(o, section)[i].name = name].lines

\* the number of lines before the parameter list, and of the list
ListStart(o, section) ==
    IF section = <<"P">> THEN 4 ELSE Len(Written(o)) - 1

ListLength(o, section) ==
    Len(Flatten([i \in DOMAIN WrittenEntries(o, section) |->
                    WrittenEntries(o, section)[i].lines]))

HeadLines(o, section) == SubSeq(Written(o), 1, ListStart(o, section))

TailLines(o, section) ==
    SubSeq(Written(o), ListStart(o, section) + ListLength(o, section) + 1,
           Len(Written(o)))

\* one block for each element of positional, in the order given
PositionalBlocks(o, section, positional) ==
    Flatten([i \in 1..Len(positional) |->
                IF positional[i] \in WrittenNames(o, section)
                THEN WrittenBlock(o, section, positional[i])
                ELSE <<positional[i]>>])

\* the written entries that are not positional and are keywords, in order
KeptBlocks(o, section, positional, keyword) ==
    Flatten([i \in DOMAIN WrittenEntries(o, section) |->
                IF /\ WrittenEntries(o, section)[i].name \notin Range(positional)
                   /\ WrittenEntries(o, section)[i].name \in keyword
                THEN WrittenEntries(o, section)[i].lines
                ELSE <<>>])

\* the call built its replacement lines
Built == call.op = "get_param_diff" /\ locals.out # NoOut

Overlap == Range(call.keyword) \cap Range(call.positional) # {}

\* C2: a call in which a name is both in positional and in keyword fails
\* with the ValueError of the overlap check, and has then made no read of
\* the object's docstring or source, whatever the object is.
C2_OverlapFirst ==
    (call.op = "get_param_diff" /\ Overlap)
    => /\ result = Raise("ValueError", "overlap")
       /\ locals.reads = {}

\* an overlapping request on an object without a docstring: the read of
\* the docstring would have failed
C2_Witness ==
    /\ call.op = "get_param_diff"
    /\ Overlap
    /\ obj.doc = NoDoc
    /\ result.kind = "raise"

\* C3: the replacement lines start with the lines before the parameter list
\* and then hold one block for each element of positional, in the order
\* given, duplicates included: the written lines of the entry when the name
\* is documented, else one line holding the name alone.
C3_PositionalBlocks ==
    Built
    => LET n == Len(HeadLines(obj, call.section))
                + Len(PositionalBlocks(obj, call.section, call.positional))
       IN  /\ Len(locals.out) >= n
           /\ SubSeq(locals.out, 1, n)
                  = HeadLines(obj, call.section)
                    \o PositionalBlocks(obj, call.section, call.positional)

\* two positional names against two documented entries: an undocumented
\* name first, then the second entry, which has a type and a description
C3_Witness ==
    /\ Built
    /\ call.section = <<"P">>
    /\ Len(obj.entries) = 2
    /\ Len(call.positional) = 2
    /\ call.positional[1] \notin WrittenNames(obj, call.section)
    /\ call.positional[2] = obj.entries[2].name
    /\ obj.entries[2].shape = "full"
    /\ obj.entries[1].shape = "full"

\* C4: after the positional blocks come the written entries whose name is
\* not positional and is a keyword, in their written order and with their
\* written lines; then one line per keyword that is not documented, the
\* name alone, in ascending order; then the lines after the parameter list.
\* Only the membership of keyword enters: the statement reads Range of it.
C4_KeywordBlocks ==
    Built
    => LET n    == Len(HeadLines(obj, call.section))
                    + Len(PositionalBlocks(obj, call.section, call.positional))
           rest == SubSeq(locals.out, n + 1, Len(locals.out))
           kept == KeptBlocks(obj, call.section, call.positional,
                              Range(call.keyword))
           new  == Range(call.keyword) \ WrittenNames(obj, call.section)
           tail == TailLines(obj, call.section)
           ph   == SubSeq(rest, Len(kept) + 1, Len(kept) + Cardinality(new))
       IN  /\ Len(rest) = Len(kept) + Cardinality(new) + Len(tail)
           /\ SubSeq(rest, 1, Len(kept)) = kept
           /\ Range(ph) = new
           /\ \A i, j \in 1..Len(ph) : i < j => StrLess(ph[i], ph[j])
           /\ SubSeq(rest, Len(kept) + Cardinality(new) + 1, Len(rest)) = tail

\* keyword given in descending order: one documented entry is kept, one is
\* dropped, one undocumented keyword is added, and lines follow the list
C4_Witness ==
    /\ Built
    /\ call.section = <<"P">>
    /\ obj.layout = "PR"
    /\ Len(obj.entries) = 2
    /\ Len(call.keyword) = 2
    /\ StrLess(call.keyword[2], call.keyword[1])
    /\ Cardinality(Range(call.keyword) \cap WrittenNames(obj, call.section)) = 1
    /\ WrittenNames(obj, call.section) \ Range(call.keyword) # {}
    /\ call.positional = <<>>

\* the request asks for what is documented: positional is a prefix of the
\* written names in their order, keyword is the set of the names that follow
NoOpRequest ==
    /\ call.op = "get_param_diff"
    /\ HasSection(obj, call.section)
    /\ Len(call.positional) <= Len(WrittenEntries(obj, call.section))
    /\ \A i \in 1..Len(call.positional) :
           call.positional[i] = WrittenEntries(obj, call.section)[i].name
    /\ Range(call.keyword)
           = {WrittenEntries(obj, call.section)[i].name :
                 i \in (Len(call.positional) + 1)..Len(WrittenEntries(obj, call.section))}

\* C1: a request for exactly the documented names, positional a prefix of
\* them in the documented order and keyword the set of the rest, returns the
\* empty string.
C1_NoOpReturnsEmpty == NoOpRequest => result = Return(<<>>)

\* the request names no parameter twice, and the object has a docstring
\* with the section: nothing stands against rewriting it
Accepted ==
    /\ call.op = "get_param_diff"
    /\ ~Overlap
    /\ HasSection(obj, call.section)

\* C5: for an accepted request the text that is diffed against the source is
\* built, and outside the parameter list it is the source: the lines up to
\* the list (synthetic leading lines, signature, opening quote, the
\* docstring before the list) and the lines after it (the rest of the
\* docstring, the closing quote, the code that follows) are unchanged.
C5_OnlyListRewritten ==
    Accepted
    => LET from   == Repeat(NL, obj.file_offset - 1) \o obj.src
           before == obj.file_offset + ListStart(obj, call.section)
           after  == Len(split(from)) - before - ListLength(obj, call.section)
       IN  /\ locals.diff_to # NoText
           /\ Len(split(locals.diff_to)) >= before + after
           /\ SubSeq(split(locals.diff_to), 1, before)
                  = SubSeq(split(from), 1, before)
           /\ SubSeq(split(locals.diff_to),
                     Len(split(locals.diff_to)) - after + 1,
                     Len(split(locals.diff_to)))
                  = SubSeq(split(from), Len(split(from)) - after + 1,
                           Len(split(from)))

\* a subsequence of consecutive lines
Holds(lines, block) ==
    \E i \in 0..(Len(lines) - Len(block)) :
        SubSeq(lines, i + 1, i + Len(block)) = block

\* the section is absent from the docstring, or is there without entries
NoEntries ==
    /\ call.op = "get_param_diff"
    /\ ~Overlap
    /\ obj.doc # NoDoc
    /\ \/ ~HasSection(obj, call.section)
       \/ WrittenEntries(obj, call.section) = <<>>

\* the ascending sequence of the names of a set
Ascending(S, names) ==
    /\ Range(names) = S
    /\ Len(names) = Cardinality(S)
    /\ \A i, j \in 1..Len(names) : i < j => StrLess(names[i], names[j])

\* C6: when the section is absent from the docstring, or has no entries,
\* get_param_diff does not fail: the lines it builds hold one line per
\* requested name, the positional names in order and then the keyword names
\* in ascending order.
C6_AbsentSectionIsEmpty ==
    NoEntries
    => /\ result.kind = "ok"
       /\ locals.out # NoOut
       /\ \E kw \in SeqsUpTo(Range(call.keyword), Len(call.keyword)) :
              /\ Ascending(Range(call.keyword), kw)
              /\ Holds(locals.out,
                       [i \in 1..Len(call.positional) |-> call.positional[i]]
                       \o kw)

(***************************************************************************)
(* Properties of diff_parameters, checked under SpecSig.                   *)
(***************************************************************************)
\* the arguments of the signature without a first argument named self
SigArgs(argspec) ==
    IF Len(argspec.args) > 0 /\ argspec.args[1] = SelfName
    THEN [i \in 1..(Len(argspec.args) - 1) |-> argspec.args[i + 1]]
    ELSE argspec.args

\* how many of them, counted from the end, have a default and are keywords
SigKeywords(argspec, all_positional) ==
    IF all_positional \/ argspec.defaults = NoDefaults THEN 0
    ELSE Min({argspec.defaults, Len(SigArgs(argspec))})

\* C9: diff_parameters asks get_param_diff for: positional, the arguments
\* without a leading self and without the trailing ones that have defaults
\* (all of them when all_positional is set or there are no defaults), in
\* signature order, then the variadic-positional name; keyword, the trailing
\* arguments with defaults and the variadic-keyword name; both without the
\* names of remove.  The two are disjoint and the call does not fail with
\* the ValueError of the overlap check.
C9_SignatureRequest ==
    call.op = "diff_parameters"
    => LET args == SigArgs(obj.argspec)
           k    == SigKeywords(obj.argspec, call.all_positional)
           pos  == [i \in 1..(Len(args) - k) |-> args[i]]
                   \o (IF obj.argspec.varargs # NoText
                       THEN <<obj.argspec.varargs>> ELSE <<>>)
           kw   == {args[i] : i \in (Len(args) - k + 1)..Len(args)}
                   \cup (IF obj.argspec.keywords # NoText
                         THEN {obj.argspec.keywords} ELSE {})
       IN  /\ locals.positional = SelectSeq(pos, LAMBDA n : n \notin call.remove)
           /\ locals.keyword = kw \ call.remove
           /\ (Range(locals.positional) \cup locals.keyword) \cap call.remove = {}
           /\ Range(locals.positional) \cap locals.keyword = {}
           /\ result # Raise("ValueError", "overlap")

\* a method of self and two arguments, the last with a default, with both
\* variadic names, and a removed name that the signature has
C9_Witness ==
    /\ call.op = "diff_parameters"
    /\ ~call.all_positional
    /\ Len(obj.argspec.args) = 3
    /\ obj.argspec.args[1] = SelfName
    /\ obj.argspec.defaults = 1
    /\ obj.argspec.varargs # NoText
    /\ obj.argspec.keywords # NoText
    /\ call.remove = {VarArgsName}
    /\ Len(locals.positional) = 1
    /\ Cardinality(locals.keyword) = 2

(***************************************************************************)
(* Properties of diff_member_parameters, checked under SpecBatch.          *)
(***************************************************************************)
\* the diff of one member, as diff_parameters returns or raises it
MemberDiff(m) == diff_parameters(m.obj, call.all_positional, call.remove).ret

\* the report of the members: a header and the diff for each member that is
\* visited and whose diff was returned and is not empty
RECURSIVE Report(_)
Report(ms) ==
    IF ms = <<>> THEN <<>>
    ELSE (IF /\ Visited(Head(ms))
             /\ MemberDiff(Head(ms)).kind = "ok"
             /\ MemberDiff(Head(ms)).value # <<>>
          THEN Header(Head(ms)) \o MemberDiff(Head(ms)).value
          ELSE <<>>)
         \o Report(Tail(ms))

\* C10: whatever the members are and however their diffs fail, the walk
\* raises nothing; it has at every step collected the report of the members
\* it has passed, returns only after the last member, and returns the
\* report of all the members, in their order.
C10_FailSoft ==
    /\ result.kind # "raise"
    /\ cursor <= Len(members)
    /\ Flatten(diffs) = Report(SubSeq(members, 1, cursor))
    /\ result.kind = "ok"
       => /\ cursor = Len(members)
          /\ result.value = Report(members)

\* the walk returned after two visited members, the first of which failed
\* with another error than the second
C10_Witness ==
    /\ result.kind = "ok"
    /\ Len(members) = 2
    /\ Visited(members[1])
    /\ Visited(members[2])
    /\ MemberDiff(members[1]).kind = "raise"
    /\ MemberDiff(members[2]).kind = "raise"
    /\ MemberDiff(members[1]).exc # MemberDiff(members[2]).exc

====
